---- MODULE Spec2Model ----
(***************************************************************************)
(* Model of the notification service: the notifications table, the         *)
(* repository (internal/core/notification_repository.go), the service      *)
(* that goes through the repository, and the service of                    *)
(* internal/logic/v1/service.go that issues its SQL statements itself.     *)
(*                                                                         *)
(* Strings that the code parses (notification ids, user identities) are    *)
(* sequences of one-character strings; free text (title, message, type)    *)
(* is a TLA+ string, with NULL standing for the SQL NULL.                  *)
(***************************************************************************)
EXTENDS Integers, Sequences, FiniteSets, Bags, TLC

\* ---------------------------------------------------------------- bounds
MaxId == 2          \* highest value the SERIAL sequence hands out
MaxTime == 1        \* the clock runs over 0..MaxTime
TicksPerSecond == 2 \* clock ticks per second of RFC3339 output
MaxInflight == 2    \* MarkAsRead calls between their two round trips

\* ------------------------------------------------------------ the values
NULL == "<NULL>"
PlaceholderUser == 1
Users == {1, 2}

ErrNil == "nil"
ErrNotificationNotFound == "notification not found"
ErrInvalidRecipient == "invalid recipient"
ErrNoPool == "database connection not available"
ErrStatement == "statement failed"
ErrUserIDRequired == "user_id is required"
ErrInvalidUserID == "invalid user_id"
ErrBind == "invalid request body"
ErrAuthenticationRequired == "Authentication required"
ErrAuthRequest == "request auth service"
ErrInvalidToken == "invalid or expired token"
ErrAuthService == "auth service error"
ErrDecode == "decode response"

StatusOK == 200
StatusBadRequest == 400
StatusUnauthorized == 401
StatusNotFound == 404
StatusInternalServerError == 500

\* ------------------------------------------------- strconv.Atoi and Itoa
Digits == <<"0", "1", "2", "3", "4", "5", "6", "7", "8", "9">>

IsDigit(c) == \E i \in 1..10 : Digits[i] = c

DigitVal(c) == (CHOOSE i \in 1..10 : Digits[i] = c) - 1

RECURSIVE DigitsVal(_)
DigitsVal(s) ==
    IF s = <<>> THEN 0
    ELSE 10 * DigitsVal(SubSeq(s, 1, Len(s) - 1)) + DigitVal(s[Len(s)])

\* strconv.Atoi: an optional sign followed by at least one decimal digit.
Atoi(s) ==
    LET signed == s # <<>> /\ s[1] \in {"+", "-"}
        body == IF signed THEN Tail(s) ELSE s
        ok == body # <<>> /\ \A i \in 1..Len(body) : IsDigit(body[i])
    IN  IF ~ok THEN [ok |-> FALSE, val |-> 0]
        ELSE [ok |-> TRUE,
              val |-> IF signed /\ s[1] = "-" THEN 0 - DigitsVal(body)
                      ELSE DigitsVal(body)]

RECURSIVE NatDigits(_)
NatDigits(n) ==
    IF n < 10 THEN <<Digits[n + 1]>>
    ELSE Append(NatDigits(n \div 10), Digits[(n % 10) + 1])

Itoa(n) == IF n < 0 THEN <<"-">> \o NatDigits(0 - n) ELSE NatDigits(n)

\* time.Time.Format(time.RFC3339): the timestamp cut to whole seconds.
\* The empty string is <<>>.
FormatRFC3339(t) == <<"T", t \div TicksPerSecond>>

\* ---------------------------------------------------- domain.Notification
ZeroNotification ==
    [ID |-> <<>>, Type |-> "", Title |-> "", Message |-> "",
     Status |-> "", Read |-> FALSE, CreatedAt |-> <<>>]

\* A Go slice result: nil, or a (possibly empty) sequence of elements.
NilSlice == [isNil |-> TRUE, elems |-> <<>>]

SliceOf(s) == [isNil |-> FALSE, elems |-> s]

\* append(nil, x...) stays nil when nothing is appended.
AppendAll(s) == IF s = <<>> THEN NilSlice ELSE SliceOf(s)

VARIABLES
    notifications,  \* the table: id -> row
    seq,            \* last value handed out by the id sequence
    now,            \* CURRENT_TIMESTAMP
    resp,           \* the result of the last completed operation
    inflight        \* the MarkAsRead calls between update and re-fetch

vars == <<notifications, seq, now, resp, inflight>>

\* ------------------------------------------------- the SQL statements
\* A row as the schema stores it.  title is NOT NULL; message and type are
\* nullable; read defaults to FALSE and created_at to CURRENT_TIMESTAMP.
Row(user, title, message, type, read, created) ==
    [user_id |-> user, title |-> title, message |-> message,
     type |-> type, read |-> read, created_at |-> created]

\* INSERT INTO notifications (user_id, title, message, type, read)
\* VALUES (...) RETURNING id, created_at
\* The id comes from the SERIAL sequence, which advances even when the
\* primary key then rejects the row.
SqlInsert(T, s, t, user, title, message, type, read) ==
    LET id == s + 1
    IN  IF id \in DOMAIN T
        THEN [ok |-> FALSE, id |-> 0, created_at |-> 0, table |-> T, seq |-> id]
        ELSE [ok |-> TRUE, id |-> id, created_at |-> t,
              table |-> [i \in DOMAIN T \cup {id} |->
                            IF i = id
                            THEN Row(user, title, message, type, read, t)
                            ELSE T[i]],
              seq |-> id]

\* The update as SET read = NOT read.
SqlMarkReadToggle(T, id) ==
    [rowsAffected |-> IF id \in DOMAIN T THEN 1 ELSE 0,
     table |-> [i \in DOMAIN T |->
                   IF i = id THEN [T[i] EXCEPT !.read = ~T[i].read] ELSE T[i]]]

\* The update without its WHERE clause.
SqlMarkReadAll(T, id) ==
    [rowsAffected |-> IF id \in DOMAIN T THEN 1 ELSE 0,
     table |-> [i \in DOMAIN T |-> [T[i] EXCEPT !.read = TRUE]]]

\* The update as SET read = true, user_id = $1.
SqlMarkReadOwner(T, id) ==
    [rowsAffected |-> IF id \in DOMAIN T THEN 1 ELSE 0,
     table |-> [i \in DOMAIN T |->
                   IF i = id THEN [T[i] EXCEPT !.read = TRUE, !.user_id = id]
                   ELSE T[i]]]

\* The update as WHERE id = $1 AND read = false.
SqlMarkReadUnreadOnly(T, id) ==
    [rowsAffected |-> IF id \in DOMAIN T /\ ~T[id].read THEN 1 ELSE 0,
     table |-> [i \in DOMAIN T |-> IF i = id THEN [T[i] EXCEPT !.read = TRUE]
                                    ELSE T[i]]]

\* UPDATE notifications SET read = true WHERE id = $1
SqlMarkRead(T, id) ==
    [rowsAffected |-> IF id \in DOMAIN T THEN 1 ELSE 0,
     table |-> [i \in DOMAIN T |-> IF i = id THEN [T[i] EXCEPT !.read = TRUE]
                                    ELSE T[i]]]

\* The count without its user_id condition.
SqlCountUnreadOfAll(T, user) ==
    Cardinality({i \in DOMAIN T : T[i].read = FALSE})

\* SELECT COUNT(*) FROM notifications WHERE user_id = $1 AND read = false
SqlCountUnread(T, user) ==
    Cardinality({i \in DOMAIN T : T[i].user_id = user /\ T[i].read = FALSE})

\* The select as ORDER BY created_at ASC.
SqlSelectByUserAscending(T, user) ==
    LET ids == {i \in DOMAIN T : T[i].user_id = user}
        n == Cardinality(ids)
    IN  {o \in [1..n -> ids] :
            /\ \A i, j \in 1..n : i # j => o[i] # o[j]
            /\ \A i, j \in 1..n :
                  i < j => T[o[i]].created_at <= T[o[j]].created_at}

\* SELECT ... FROM notifications WHERE user_id = $1 ORDER BY created_at DESC
\* Every order the statement may return the rows in: rows with equal
\* created_at come in any order.
SqlSelectByUser(T, user) ==
    LET ids == {i \in DOMAIN T : T[i].user_id = user}
        n == Cardinality(ids)
    IN  {o \in [1..n -> ids] :
            /\ \A i, j \in 1..n : i # j => o[i] # o[j]
            /\ \A i, j \in 1..n :
                  i < j => T[o[i]].created_at >= T[o[j]].created_at}

\* ------------------------------------------- rows to domain.Notification
\* The scan of the repository: NULL columns leave the zero value, then the
\* empty one of title / message takes the other's value.
RepoScan(id, row) ==
    LET title == IF row.title = NULL THEN "" ELSE row.title
        message == IF row.message = NULL THEN "" ELSE row.message
    IN  [ID |-> Itoa(id),
         Type |-> IF row.type = NULL THEN "" ELSE row.type,
         Title |-> IF title = "" /\ message # "" THEN message ELSE title,
         Message |-> IF title = "" /\ message # "" THEN message
                     ELSE IF message = "" /\ title # "" THEN title
                     ELSE message,
         Status |-> "sent",
         Read |-> row.read,
         CreatedAt |-> FormatRFC3339(row.created_at)]

\* The scan of service.go: the title is copied into the message, and a
\* non-NULL, non-empty message column then replaces it.
DirectScan(id, row) ==
    [ID |-> Itoa(id),
     Type |-> IF row.type = NULL THEN "" ELSE row.type,
     Title |-> IF row.title = NULL THEN "" ELSE row.title,
     Message |-> IF row.message # NULL /\ row.message # "" THEN row.message
                 ELSE IF row.title = NULL THEN "" ELSE row.title,
     Status |-> "sent",
     Read |-> row.read,
     CreatedAt |-> FormatRFC3339(row.created_at)]

\* ------------------------------------------------------ the repository
\* Each operation is given the table T, the sequence s, the clock t, the
\* pool p and whether its one statement succeeds (ok); it yields what the
\* method returns and the table it leaves.

\* NotificationRepository.Create
RepoCreate(T, s, t, p, n, userID, ok) ==
    LET title == IF n.Title = "" THEN n.Message ELSE n.Title
        message == IF n.Message = "" THEN title ELSE n.Message
        ins == SqlInsert(T, s, t, userID, title, message, n.Type, FALSE)
    IN  IF ~p
        THEN [err |-> ErrNoPool, entity |-> n, table |-> T, seq |-> s]
        ELSE IF ~ok
        THEN [err |-> ErrStatement, entity |-> n, table |-> T, seq |-> s]
        ELSE IF ~ins.ok
        THEN [err |-> ErrStatement, entity |-> n, table |-> T, seq |-> ins.seq]
        ELSE [err |-> ErrNil,
              entity |-> [n EXCEPT !.ID = Itoa(ins.id),
                                   !.CreatedAt = FormatRFC3339(ins.created_at),
                                   !.Read = FALSE,
                                   !.Status = "sent"],
              table |-> ins.table, seq |-> ins.seq]

\* FindByID answering a failed statement as it answers no row.
RepoFindByIDConflating(T, p, id, ok) ==
    IF ~p THEN [err |-> ErrNoPool, ptr |-> FALSE, entity |-> ZeroNotification]
    ELSE IF ~ok \/ id \notin DOMAIN T
    THEN [err |-> ErrNil, ptr |-> FALSE, entity |-> ZeroNotification]
    ELSE [err |-> ErrNil, ptr |-> TRUE, entity |-> RepoScan(id, T[id])]

\* NotificationRepository.FindByID: (nil, nil) when no row has the id.
RepoFindByID(T, p, id, ok) ==
    IF ~p THEN [err |-> ErrNoPool, ptr |-> FALSE, entity |-> ZeroNotification]
    ELSE IF ~ok
    THEN [err |-> ErrStatement, ptr |-> FALSE, entity |-> ZeroNotification]
    ELSE IF id \notin DOMAIN T
    THEN [err |-> ErrNil, ptr |-> FALSE, entity |-> ZeroNotification]
    ELSE [err |-> ErrNil, ptr |-> TRUE, entity |-> RepoScan(id, T[id])]

\* NotificationRepository.ListByUserID, when the statement returns the
\* rows in the order o: the slice starts nil and is appended to per row.
RepoListByUserID(T, p, o, ok) ==
    IF ~p THEN [err |-> ErrNoPool, list |-> NilSlice]
    ELSE IF ~ok THEN [err |-> ErrStatement, list |-> NilSlice]
    ELSE [err |-> ErrNil,
          list |-> AppendAll([i \in 1..Len(o) |-> RepoScan(o[i], T[o[i]])])]

\* MarkAsRead whose failed statement has still updated the row.
RepoMarkAsReadPartial(T, p, id, ok) ==
    LET upd == SqlMarkRead(T, id)
    IN  IF ~p THEN [err |-> ErrNoPool, updated |-> FALSE, table |-> T]
        ELSE IF ~ok
        THEN [err |-> ErrStatement, updated |-> FALSE, table |-> upd.table]
        ELSE [err |-> ErrNil, updated |-> upd.rowsAffected > 0,
              table |-> upd.table]

\* NotificationRepository.MarkAsRead
RepoMarkAsRead(T, p, id, ok) ==
    LET upd == SqlMarkRead(T, id)
    IN  IF ~p THEN [err |-> ErrNoPool, updated |-> FALSE, table |-> T]
        ELSE IF ~ok THEN [err |-> ErrStatement, updated |-> FALSE, table |-> T]
        ELSE [err |-> ErrNil, updated |-> upd.rowsAffected > 0,
              table |-> upd.table]

\* NotificationRepository.CountUnreadByUserID
RepoCountUnreadByUserID(T, p, userID, ok) ==
    IF ~p THEN [err |-> ErrNoPool, count |-> 0]
    ELSE IF ~ok THEN [err |-> ErrStatement, count |-> 0]
    ELSE [err |-> ErrNil, count |-> SqlCountUnread(T, userID)]

\* ------------------------------- the service that uses the repository
\* Results are [err, ptr, entity, ...]: ptr is FALSE for a nil *Notification.
NoEntity(err) == [err |-> err, ptr |-> FALSE, entity |-> ZeroNotification]

\* NotificationService.SendEmail
SendEmailResult(T, s, t, p, req, ok) ==
    LET n == [ZeroNotification EXCEPT !.Type = "email",
                                      !.Message = req.Subject,
                                      !.Title = req.Subject]
        c == RepoCreate(T, s, t, p, n, PlaceholderUser, ok)
    IN  IF req.To = "" \/ req.To = "invalid"
        THEN NoEntity(ErrInvalidRecipient) @@ [table |-> T, seq |-> s]
        ELSE IF c.err # ErrNil
        THEN NoEntity(c.err) @@ [table |-> c.table, seq |-> c.seq]
        ELSE [err |-> ErrNil, ptr |-> TRUE, entity |-> c.entity,
              table |-> c.table, seq |-> c.seq]

\* SendSMS validating its recipient as SendEmail does.
SendSMSResultValidating(T, s, t, p, req, ok) ==
    LET n == [ZeroNotification EXCEPT !.Type = "sms",
                                      !.Message = req.Message,
                                      !.Title = "SMS"]
        c == RepoCreate(T, s, t, p, n, PlaceholderUser, ok)
    IN  IF req.To = "" \/ req.To = "invalid"
        THEN NoEntity(ErrInvalidRecipient) @@ [table |-> T, seq |-> s]
        ELSE IF c.err # ErrNil
        THEN NoEntity(c.err) @@ [table |-> c.table, seq |-> c.seq]
        ELSE [err |-> ErrNil, ptr |-> TRUE, entity |-> c.entity,
              table |-> c.table, seq |-> c.seq]

\* NotificationService.SendSMS
SendSMSResult(T, s, t, p, req, ok) ==
    LET n == [ZeroNotification EXCEPT !.Type = "sms",
                                      !.Message = req.Message,
                                      !.Title = "SMS"]
        c == RepoCreate(T, s, t, p, n, PlaceholderUser, ok)
    IN  IF c.err # ErrNil
        THEN NoEntity(c.err) @@ [table |-> c.table, seq |-> c.seq]
        ELSE [err |-> ErrNil, ptr |-> TRUE, entity |-> c.entity,
              table |-> c.table, seq |-> c.seq]

\* The identity resolved to the default user whatever it is.
ListUserDefault(userID) == 1

\* The user whose notifications ListNotifications lists: the parsed
\* identity, or user 1 when it is empty or does not parse.
ListUser(userID) ==
    IF userID # <<>> /\ Atoi(userID).ok THEN Atoi(userID).val ELSE 1

\* NotificationService.ListNotifications, the statement returning order o
ListNotificationsResult(T, p, o, ok) ==
    LET r == RepoListByUserID(T, p, o, ok)
    IN  IF r.err # ErrNil THEN [err |-> r.err, list |-> NilSlice]
        ELSE IF r.list.isNil THEN [err |-> ErrNil, list |-> SliceOf(<<>>)]
        ELSE [err |-> ErrNil, list |-> r.list]

\* NotificationService.GetNotification
GetNotificationResult(T, p, id, ok) ==
    LET a == Atoi(id)
        r == RepoFindByID(T, p, a.val, ok)
    IN  IF ~a.ok THEN NoEntity(ErrNotificationNotFound)
        ELSE IF r.err # ErrNil THEN NoEntity(r.err)
        ELSE IF ~r.ptr THEN NoEntity(ErrNotificationNotFound)
        ELSE [err |-> ErrNil, ptr |-> TRUE, entity |-> r.entity]

\* NotificationService.MarkAsRead up to its re-fetch: done is TRUE when
\* the method has returned, FALSE when it goes on to GetNotification.
MarkAsReadUpdate(T, p, id, ok) ==
    LET a == Atoi(id)
        u == RepoMarkAsRead(T, p, a.val, ok)
    IN  IF ~a.ok
        THEN NoEntity(ErrNotificationNotFound) @@ [done |-> TRUE, table |-> T]
        ELSE IF u.err # ErrNil
        THEN NoEntity(u.err) @@ [done |-> TRUE, table |-> u.table]
        ELSE IF ~u.updated
        THEN NoEntity(ErrNotificationNotFound)
                 @@ [done |-> TRUE, table |-> u.table]
        ELSE NoEntity(ErrNil) @@ [done |-> FALSE, table |-> u.table]

\* CountUnread resolving the identity as ListNotifications does.
CountUnreadResultDefaulting(T, p, userID, ok) ==
    LET r == RepoCountUnreadByUserID(T, p, ListUser(userID), ok)
    IN  IF r.err # ErrNil THEN [err |-> r.err, count |-> 0]
        ELSE [err |-> ErrNil, count |-> r.count]

\* NotificationService.CountUnread
CountUnreadResult(T, p, userID, ok) ==
    LET a == Atoi(userID)
        r == RepoCountUnreadByUserID(T, p, a.val, ok)
    IN  IF userID = <<>> THEN [err |-> ErrUserIDRequired, count |-> 0]
        ELSE IF ~a.ok \/ a.val <= 0 THEN [err |-> ErrInvalidUserID, count |-> 0]
        ELSE IF r.err # ErrNil THEN [err |-> r.err, count |-> 0]
        ELSE [err |-> ErrNil, count |-> r.count]

\* ------------------------- the service of service.go (its own statements)
\* NotificationService.SendEmail of service.go
DirectSendEmailResult(T, s, t, p, req, ok) ==
    LET ins == SqlInsert(T, s, t, PlaceholderUser, req.Subject, req.Body,
                         "email", FALSE)
    IN  IF ~p THEN NoEntity(ErrNoPool) @@ [table |-> T, seq |-> s]
        ELSE IF req.To = "" \/ req.To = "invalid"
        THEN NoEntity(ErrInvalidRecipient) @@ [table |-> T, seq |-> s]
        ELSE IF ~ok THEN NoEntity(ErrStatement) @@ [table |-> T, seq |-> s]
        ELSE IF ~ins.ok
        THEN NoEntity(ErrStatement) @@ [table |-> T, seq |-> ins.seq]
        ELSE [err |-> ErrNil, ptr |-> TRUE,
              entity |-> [ZeroNotification EXCEPT !.ID = Itoa(ins.id),
                                                  !.Type = "email",
                                                  !.Message = req.Subject,
                                                  !.Status = "sent"],
              table |-> ins.table, seq |-> ins.seq]

\* NotificationService.SendSMS of service.go
DirectSendSMSResult(T, s, t, p, req, ok) ==
    LET ins == SqlInsert(T, s, t, PlaceholderUser, "SMS", req.Message,
                         "sms", FALSE)
    IN  IF ~p THEN NoEntity(ErrNoPool) @@ [table |-> T, seq |-> s]
        ELSE IF ~ok THEN NoEntity(ErrStatement) @@ [table |-> T, seq |-> s]
        ELSE IF ~ins.ok
        THEN NoEntity(ErrStatement) @@ [table |-> T, seq |-> ins.seq]
        ELSE [err |-> ErrNil, ptr |-> TRUE,
              entity |-> [ZeroNotification EXCEPT !.ID = Itoa(ins.id),
                                                  !.Type = "sms",
                                                  !.Message = req.Message,
                                                  !.Status = "sent"],
              table |-> ins.table, seq |-> ins.seq]

\* NotificationService.ListNotifications of service.go
DirectListNotificationsResult(T, p, o, ok) ==
    IF ~p THEN [err |-> ErrNoPool, list |-> NilSlice]
    ELSE IF ~ok THEN [err |-> ErrStatement, list |-> NilSlice]
    ELSE [err |-> ErrNil,
          list |-> AppendAll([i \in 1..Len(o) |-> DirectScan(o[i], T[o[i]])])]

\* NotificationService.GetNotification of service.go
DirectGetNotificationResult(T, p, id, ok) ==
    LET a == Atoi(id)
    IN  IF ~p THEN NoEntity(ErrNoPool)
        ELSE IF ~a.ok THEN NoEntity(ErrNotificationNotFound)
        ELSE IF ~ok THEN NoEntity(ErrStatement)
        ELSE IF a.val \notin DOMAIN T THEN NoEntity(ErrNotificationNotFound)
        ELSE [err |-> ErrNil, ptr |-> TRUE,
              entity |-> DirectScan(a.val, T[a.val])]

\* NotificationService.MarkAsRead of service.go up to its re-fetch
DirectMarkAsReadUpdate(T, p, id, ok) ==
    LET a == Atoi(id)
        upd == SqlMarkRead(T, a.val)
    IN  IF ~p THEN NoEntity(ErrNoPool) @@ [done |-> TRUE, table |-> T]
        ELSE IF ~a.ok
        THEN NoEntity(ErrNotificationNotFound) @@ [done |-> TRUE, table |-> T]
        ELSE IF ~ok THEN NoEntity(ErrStatement) @@ [done |-> TRUE, table |-> T]
        ELSE IF upd.rowsAffected = 0
        THEN NoEntity(ErrNotificationNotFound) @@ [done |-> TRUE, table |-> T]
        ELSE NoEntity(ErrNil) @@ [done |-> FALSE, table |-> upd.table]

\* ------------------------------------------------- the auth middleware
\* What the auth service does to one GetMe call: whether the request
\* reaches it, the status it answers, whether the body decodes, and the id
\* in the body.
AuthReply(reached, code, decodes, id) ==
    [reached |-> reached, StatusCode |-> code, decodes |-> decodes, ID |-> id]

\* AuthClient.GetMe
GetMe(reply) ==
    IF ~reply.reached THEN [err |-> ErrAuthRequest, ID |-> <<>>]
    ELSE IF reply.StatusCode = StatusUnauthorized
    THEN [err |-> ErrInvalidToken, ID |-> <<>>]
    ELSE IF reply.StatusCode # StatusOK
    THEN [err |-> ErrAuthService, ID |-> <<>>]
    ELSE IF ~reply.decodes THEN [err |-> ErrDecode, ID |-> <<>>]
    ELSE [err |-> ErrNil, ID |-> reply.ID]

bearerPrefix == <<"B", "e", "a", "r", "e", "r", " ">>

\* The gin context a handler is given: the request's Authorization header,
\* the user_id key, whether the chain went on to the handler (c.Next) and,
\* as history, the error of the GetMe call ("" when GetMe was not called).
Context(authHeader, userID, lookup) ==
    [Authorization |-> authHeader, user_id |-> userID, next |-> TRUE,
     lookup |-> lookup]

\* The middleware answering 401 itself when the lookup fails.
AuthMiddlewareRejecting(authHeader, reply) ==
    LET malformed ==
            \/ Len(authHeader) <= Len(bearerPrefix)
            \/ SubSeq(authHeader, 1, Len(bearerPrefix)) # bearerPrefix
        me == GetMe(reply)
    IN  IF authHeader = <<>> THEN Context(authHeader, <<"1">>, "")
        ELSE IF malformed THEN Context(authHeader, <<"1">>, "")
        ELSE IF me.err # ErrNil
        THEN [Context(authHeader, <<>>, me.err) EXCEPT !.next = FALSE]
        ELSE Context(authHeader, me.ID, ErrNil)

\* AuthMiddleware, up to its c.Next()
AuthMiddleware(authHeader, reply) ==
    LET malformed ==
            \/ Len(authHeader) <= Len(bearerPrefix)
            \/ SubSeq(authHeader, 1, Len(bearerPrefix)) # bearerPrefix
        me == GetMe(reply)
    IN  IF authHeader = <<>> THEN Context(authHeader, <<"1">>, "")
        ELSE IF malformed THEN Context(authHeader, <<"1">>, "")
        ELSE IF me.err # ErrNil THEN Context(authHeader, <<"1">>, me.err)
        ELSE Context(authHeader, me.ID, ErrNil)

\* ----------------------------------------------------------- the handler
\* A request body: text that is not JSON, or the fields of a JSON object.
NotJSON == [json |-> FALSE, To |-> "", Subject |-> "", Body |-> "",
            Message |-> ""]

EmailBody(req) ==
    [json |-> TRUE, To |-> req.To, Subject |-> req.Subject,
     Body |-> req.Body, Message |-> ""]

SMSBody(req) ==
    [json |-> TRUE, To |-> req.To, Subject |-> "", Body |-> "",
     Message |-> req.Message]

\* The strings the email rule of the binding accepts.
EmailAddresses == {"u@x.io"}

\* c.ShouldBindJSON(&req) for SendEmailRequest: to required and an email,
\* subject and body required.
BindSendEmail(body) ==
    /\ body.json
    /\ body.To # "" /\ body.To \in EmailAddresses
    /\ body.Subject # ""
    /\ body.Body # ""

\* c.ShouldBindJSON(&req) for SendSMSRequest: to and message required.
BindSendSMS(body) == body.json /\ body.To # "" /\ body.Message # ""

\* The status Handler.SendEmail answers for the service's error.
SendEmailStatus(err) ==
    IF err = ErrNil THEN StatusOK
    ELSE IF err = ErrInvalidRecipient THEN StatusBadRequest
    ELSE StatusInternalServerError

\* The status of the handlers that answer 500 for every error of the
\* service: SendSMS, ListNotifications and GetUnreadCount.
ServerErrorStatus(err) ==
    IF err = ErrNil THEN StatusOK ELSE StatusInternalServerError

\* Handler.handleNotificationByID
handleNotificationByID(err) ==
    IF err = ErrNil THEN StatusOK
    ELSE IF err = ErrNotificationNotFound THEN StatusNotFound
    ELSE StatusInternalServerError

\* ---------------------------------------------------------- the inputs
\* What the storage does to one operation: <<p, ok>>, where p is whether
\* GetPool() returns a pool (not nil) and ok whether the statement succeeds.
Storage == {<<FALSE, TRUE>>, <<TRUE, FALSE>>, <<TRUE, TRUE>>}

\* The storage at a second round trip, which happens only after a first
\* round trip that succeeded.
StorageAfter(st) == IF st = <<TRUE, TRUE>> THEN Storage ELSE {<<TRUE, TRUE>>}

Recipients == {"", "invalid", "u@x.io"}
EmailRequests(texts) == [To : Recipients, Subject : texts, Body : texts]
SMSRecipients == {"", "invalid", "+15550100"}
SMSRequests(texts) == [To : SMSRecipients, Message : texts]
CreateInputs(texts) ==
    {[ZeroNotification EXCEPT !.Title = ti, !.Message = me, !.Type = "push"] :
        ti \in texts, me \in texts}
IdStrings == {Itoa(i) : i \in 1..(MaxId + 1)} \cup {<<"x">>}
UserStrings == {Itoa(u) : u \in Users} \cup {<<>>, <<"0">>, <<"x">>}

\* The Authorization headers: none, the prefix with no token, another
\* scheme, and a bearer token.
AuthHeaders ==
    {<<>>, bearerPrefix, <<"B", "a", "s", "i", "c", " ", "d", "Q">>,
     bearerPrefix \o <<"t">>}

AuthIDs == {<<"2">>, <<"x">>, <<>>}

AuthReplies ==
    {AuthReply(FALSE, 0, FALSE, <<>>),
     AuthReply(TRUE, StatusUnauthorized, FALSE, <<>>),
     AuthReply(TRUE, StatusInternalServerError, FALSE, <<>>),
     AuthReply(TRUE, StatusOK, FALSE, <<>>)}
       \cup {AuthReply(TRUE, StatusOK, TRUE, id) : id \in AuthIDs}

\* A request's header with what the auth service does; the auth service is
\* out of reach of a request whose header it is never asked about.
AuthInputs ==
    {<<h, r>> \in AuthHeaders \X AuthReplies :
        AuthMiddleware(h, r).lookup = "" => ~r.reached}

EmailBodies(texts) ==
    {NotJSON} \cup {EmailBody(req) : req \in EmailRequests(texts)}
       \cup {EmailBody([To |-> "u@x.io", Subject |-> "", Body |-> t]) :
                t \in texts}

SMSBodies(texts) ==
    {NotJSON} \cup {SMSBody(req) : req \in SMSRequests(texts)}

\* The rows the seed script puts in the table directly.
SeedRows == {Row(2, "a", NULL, NULL, TRUE, 0)}

\* ------------------------------------------------------------ the state
\* prior is history, not program state: whether the row a MarkAsRead
\* addresses was stored and read before the operation.  status and c are
\* the HTTP status and the gin context of a handler's answer (status 0 for
\* an operation that is not a handler).
Response(op, arg, err) ==
    [op |-> op, arg |-> arg, err |-> err, ptr |-> FALSE,
     entity |-> ZeroNotification, list |-> NilSlice, count |-> 0,
     updated |-> FALSE, prior |-> FALSE, status |-> 0,
     c |-> Context(<<>>, <<>>, "")]

WasRead(T, id) == id \in DOMAIN T /\ T[id].read

EntityResponse(op, arg, r) ==
    [Response(op, arg, r.err) EXCEPT !.ptr = r.ptr, !.entity = r.entity]

ListResponse(op, arg, r) ==
    [Response(op, arg, r.err) EXCEPT !.list = r.list]

CountResponse(op, arg, r) ==
    [Response(op, arg, r.err) EXCEPT !.count = r.count]

\* c.JSON(status, ...) of a handler
Answer(response, c, status) == [response EXCEPT !.status = status, !.c = c]

Init ==
    /\ notifications = <<>>
    /\ seq = 0
    /\ now = 0
    /\ resp = Response("init", <<>>, ErrNil)
    /\ inflight = EmptyBag

\* The clock advances.
Tick ==
    /\ now < MaxTime
    /\ now' = now + 1
    /\ resp' = Response("Tick", <<>>, ErrNil)
    /\ UNCHANGED <<notifications, seq, inflight>>

\* INSERT INTO notifications (id, ...) VALUES (...) ON CONFLICT (id) DO
\* NOTHING: a row with an explicit id and a created_at in the past.
SeedInsert(id, row, created) ==
    /\ notifications' =
           IF id \in DOMAIN notifications THEN notifications
           ELSE [i \in DOMAIN notifications \cup {id} |->
                    IF i = id THEN [row EXCEPT !.created_at = created]
                    ELSE notifications[i]]
    /\ resp' = Response("SeedInsert", id, ErrNil)
    /\ UNCHANGED <<seq, now, inflight>>

\* --- the repository's methods, called on their own
Create(n, userID, p, ok) ==
    LET r == RepoCreate(notifications, seq, now, p, n, userID, ok)
    IN  /\ seq < MaxId
        /\ notifications' = r.table
        /\ seq' = r.seq
        /\ resp' = [Response("Create", userID, r.err)
                       EXCEPT !.ptr = TRUE, !.entity = r.entity]
        /\ UNCHANGED <<now, inflight>>

FindByID(id, p, ok) ==
    /\ resp' = EntityResponse("FindByID", id,
                              RepoFindByID(notifications, p, id, ok))
    /\ UNCHANGED <<notifications, seq, now, inflight>>

ListByUserID(userID, o, p, ok) ==
    /\ o \in SqlSelectByUser(notifications, userID)
    /\ resp' = ListResponse("ListByUserID", userID,
                            RepoListByUserID(notifications, p, o, ok))
    /\ UNCHANGED <<notifications, seq, now, inflight>>

RepositoryMarkAsRead(id, p, ok) ==
    LET r == RepoMarkAsRead(notifications, p, id, ok)
    IN  /\ notifications' = r.table
        /\ resp' = [Response("RepositoryMarkAsRead", id, r.err)
                       EXCEPT !.updated = r.updated,
                              !.prior = WasRead(notifications, id)]
        /\ UNCHANGED <<seq, now, inflight>>

CountUnreadByUserID(userID, p, ok) ==
    /\ resp' = CountResponse("CountUnreadByUserID", userID,
                   RepoCountUnreadByUserID(notifications, p, userID, ok))
    /\ UNCHANGED <<notifications, seq, now, inflight>>

\* --- the service that uses the repository
SendEmail(req, p, ok) ==
    LET r == SendEmailResult(notifications, seq, now, p, req, ok)
    IN  /\ seq < MaxId
        /\ notifications' = r.table
        /\ seq' = r.seq
        /\ resp' = EntityResponse("SendEmail", req, r)
        /\ UNCHANGED <<now, inflight>>

SendSMS(req, p, ok) ==
    LET r == SendSMSResult(notifications, seq, now, p, req, ok)
    IN  /\ seq < MaxId
        /\ notifications' = r.table
        /\ seq' = r.seq
        /\ resp' = EntityResponse("SendSMS", req, r)
        /\ UNCHANGED <<now, inflight>>

ListNotifications(userID, o, p, ok) ==
    /\ o \in SqlSelectByUser(notifications, ListUser(userID))
    /\ resp' = ListResponse("ListNotifications", userID,
                   ListNotificationsResult(notifications, p, o, ok))
    /\ UNCHANGED <<notifications, seq, now, inflight>>

GetNotification(id, p, ok) ==
    /\ resp' = EntityResponse("GetNotification", id,
                   GetNotificationResult(notifications, p, id, ok))
    /\ UNCHANGED <<notifications, seq, now, inflight>>

\* MarkAsRead with no other request between its update and its re-fetch
MarkAsRead(id, p, ok, p2, ok2) ==
    LET u == MarkAsReadUpdate(notifications, p, id, ok)
    IN  /\ notifications' = u.table
        /\ resp' = [(IF u.done THEN EntityResponse("MarkAsRead", id, u)
                     ELSE EntityResponse("MarkAsRead", id,
                              GetNotificationResult(u.table, p2, id, ok2)))
                       EXCEPT !.prior = WasRead(notifications, Atoi(id).val)]
        /\ UNCHANGED <<seq, now, inflight>>

CountUnread(userID, p, ok) ==
    /\ resp' = CountResponse("CountUnread", userID,
                   CountUnreadResult(notifications, p, userID, ok))
    /\ UNCHANGED <<notifications, seq, now, inflight>>

\* --- the service of service.go
DirectSendEmail(req, p, ok) ==
    LET r == DirectSendEmailResult(notifications, seq, now, p, req, ok)
    IN  /\ seq < MaxId
        /\ notifications' = r.table
        /\ seq' = r.seq
        /\ resp' = EntityResponse("DirectSendEmail", req, r)
        /\ UNCHANGED <<now, inflight>>

DirectSendSMS(req, p, ok) ==
    LET r == DirectSendSMSResult(notifications, seq, now, p, req, ok)
    IN  /\ seq < MaxId
        /\ notifications' = r.table
        /\ seq' = r.seq
        /\ resp' = EntityResponse("DirectSendSMS", req, r)
        /\ UNCHANGED <<now, inflight>>

DirectListNotifications(userID, o, p, ok) ==
    /\ o \in SqlSelectByUser(notifications, ListUser(userID))
    /\ resp' = ListResponse("DirectListNotifications", userID,
                   DirectListNotificationsResult(notifications, p, o, ok))
    /\ UNCHANGED <<notifications, seq, now, inflight>>

DirectGetNotification(id, p, ok) ==
    /\ resp' = EntityResponse("DirectGetNotification", id,
                   DirectGetNotificationResult(notifications, p, id, ok))
    /\ UNCHANGED <<notifications, seq, now, inflight>>

DirectMarkAsRead(id, p, ok, p2, ok2) ==
    LET u == DirectMarkAsReadUpdate(notifications, p, id, ok)
    IN  /\ notifications' = u.table
        /\ resp' = [(IF u.done THEN EntityResponse("DirectMarkAsRead", id, u)
                     ELSE EntityResponse("DirectMarkAsRead", id,
                              DirectGetNotificationResult(u.table, p2, id, ok2)))
                       EXCEPT !.prior = WasRead(notifications, Atoi(id).val)]
        /\ UNCHANGED <<seq, now, inflight>>

\* --- MarkAsRead as its two round trips, other requests between them
\* A call that has updated its row and has its re-fetch to do; prior is
\* history: the row was read before the update.
Call(id, direct, prior) == [id |-> id, direct |-> direct, prior |-> prior]

\* The first round trip of MarkAsRead: the call returns here unless the
\* update has affected a row.
BeginMarkAsRead(id, p, ok) ==
    LET u == MarkAsReadUpdate(notifications, p, id, ok)
        call == Call(id, FALSE, WasRead(notifications, Atoi(id).val))
    IN  /\ BagCardinality(inflight) < MaxInflight
        /\ notifications' = u.table
        /\ resp' = [EntityResponse("BeginMarkAsRead", id, u)
                       EXCEPT !.updated = ~u.done, !.prior = call.prior]
        /\ inflight' = IF u.done THEN inflight
                       ELSE inflight (+) SetToBag({call})
        /\ UNCHANGED <<seq, now>>

\* The second round trip: s.GetNotification(ctx, id), and the return.
EndMarkAsRead(call, p, ok) ==
    /\ BagIn(call, inflight)
    /\ ~call.direct
    /\ resp' = [EntityResponse("EndMarkAsRead", call.id,
                    GetNotificationResult(notifications, p, call.id, ok))
                   EXCEPT !.updated = TRUE, !.prior = call.prior]
    /\ inflight' = inflight (-) SetToBag({call})
    /\ UNCHANGED <<notifications, seq, now>>

\* The same two round trips of service.go.
BeginDirectMarkAsRead(id, p, ok) ==
    LET u == DirectMarkAsReadUpdate(notifications, p, id, ok)
        call == Call(id, TRUE, WasRead(notifications, Atoi(id).val))
    IN  /\ BagCardinality(inflight) < MaxInflight
        /\ notifications' = u.table
        /\ resp' = [EntityResponse("BeginDirectMarkAsRead", id, u)
                       EXCEPT !.updated = ~u.done, !.prior = call.prior]
        /\ inflight' = IF u.done THEN inflight
                       ELSE inflight (+) SetToBag({call})
        /\ UNCHANGED <<seq, now>>

EndDirectMarkAsRead(call, p, ok) ==
    /\ BagIn(call, inflight)
    /\ call.direct
    /\ resp' = [EntityResponse("EndDirectMarkAsRead", call.id,
                    DirectGetNotificationResult(notifications, p, call.id, ok))
                   EXCEPT !.updated = TRUE, !.prior = call.prior]
    /\ inflight' = inflight (-) SetToBag({call})
    /\ UNCHANGED <<notifications, seq, now>>

\* --- the handler, given the context c the middleware has prepared
\* The identity ListNotifications passes on: "1" for an empty user_id.
HandlerListUser(c) == IF c.user_id = <<>> THEN <<"1">> ELSE c.user_id

HandlerSendEmail(c, body, p, ok) ==
    LET req == [To |-> body.To, Subject |-> body.Subject, Body |-> body.Body]
        r == SendEmailResult(notifications, seq, now, p, req, ok)
    IN  /\ seq < MaxId
        /\ IF ~BindSendEmail(body)
           THEN /\ resp' = Answer(Response("HandlerSendEmail", body, ErrBind),
                                  c, StatusBadRequest)
                /\ UNCHANGED <<notifications, seq>>
           ELSE /\ notifications' = r.table
                /\ seq' = r.seq
                /\ resp' = Answer(EntityResponse("HandlerSendEmail", body, r),
                                  c, SendEmailStatus(r.err))
        /\ UNCHANGED <<now, inflight>>

HandlerSendSMS(c, body, p, ok) ==
    LET req == [To |-> body.To, Message |-> body.Message]
        r == SendSMSResult(notifications, seq, now, p, req, ok)
    IN  /\ seq < MaxId
        /\ IF ~BindSendSMS(body)
           THEN /\ resp' = Answer(Response("HandlerSendSMS", body, ErrBind),
                                  c, StatusBadRequest)
                /\ UNCHANGED <<notifications, seq>>
           ELSE /\ notifications' = r.table
                /\ seq' = r.seq
                /\ resp' = Answer(EntityResponse("HandlerSendSMS", body, r),
                                  c, ServerErrorStatus(r.err))
        /\ UNCHANGED <<now, inflight>>

HandlerListNotifications(c, o, p, ok) ==
    LET r == ListNotificationsResult(notifications, p, o, ok)
    IN  /\ o \in SqlSelectByUser(notifications, ListUser(HandlerListUser(c)))
        /\ resp' = Answer(ListResponse("HandlerListNotifications",
                                       HandlerListUser(c), r),
                          c, ServerErrorStatus(r.err))
        /\ UNCHANGED <<notifications, seq, now, inflight>>

\* What Handler.GetNotification answers to a request of context c over the
\* table T, and the table it leaves.
HandlerGetNotificationResult(T, c, id, p, ok) ==
    LET r == GetNotificationResult(T, p, id, ok)
    IN  [resp |-> Answer(EntityResponse("HandlerGetNotification", id, r),
                         c, handleNotificationByID(r.err)),
         table |-> T]

HandlerGetNotification(c, id, p, ok) ==
    LET h == HandlerGetNotificationResult(notifications, c, id, p, ok)
    IN  /\ resp' = h.resp
        /\ UNCHANGED <<notifications, seq, now, inflight>>

\* Handler.MarkAsRead asking the service only for a notification of the
\* caller.
HandlerMarkAsReadResultOwned(T, c, id, p, ok, p2, ok2) ==
    LET a == Atoi(id)
        owned == /\ a.ok
                 /\ a.val \in DOMAIN T
                 /\ Atoi(c.user_id).ok
                 /\ T[a.val].user_id = Atoi(c.user_id).val
        u == IF owned THEN MarkAsReadUpdate(T, p, id, ok)
             ELSE NoEntity(ErrNotificationNotFound)
                      @@ [done |-> TRUE, table |-> T]
        r == IF u.done THEN u
             ELSE GetNotificationResult(u.table, p2, id, ok2)
    IN  [resp |-> Answer([EntityResponse("HandlerMarkAsRead", id, r)
                             EXCEPT !.prior = WasRead(T, Atoi(id).val)],
                         c, handleNotificationByID(r.err)),
         table |-> u.table]

\* What Handler.MarkAsRead answers to a request of context c over the table
\* T, and the table it leaves.
HandlerMarkAsReadResult(T, c, id, p, ok, p2, ok2) ==
    LET u == MarkAsReadUpdate(T, p, id, ok)
        r == IF u.done THEN u
             ELSE GetNotificationResult(u.table, p2, id, ok2)
    IN  [resp |-> Answer([EntityResponse("HandlerMarkAsRead", id, r)
                             EXCEPT !.prior = WasRead(T, Atoi(id).val)],
                         c, handleNotificationByID(r.err)),
         table |-> u.table]

HandlerMarkAsRead(c, id, p, ok, p2, ok2) ==
    LET h == HandlerMarkAsReadResult(notifications, c, id, p, ok, p2, ok2)
    IN  /\ notifications' = h.table
        /\ resp' = h.resp
        /\ UNCHANGED <<seq, now, inflight>>

HandlerGetUnreadCount(c, p, ok) ==
    LET r == CountUnreadResult(notifications, p, c.user_id, ok)
    IN  /\ resp' = IF c.user_id = <<>>
                   THEN Answer(Response("HandlerGetUnreadCount", c.user_id,
                                        ErrAuthenticationRequired),
                               c, StatusUnauthorized)
                   ELSE Answer(CountResponse("HandlerGetUnreadCount",
                                             c.user_id, r),
                               c, ServerErrorStatus(r.err))
        /\ UNCHANGED <<notifications, seq, now, inflight>>

\* ------------------------------------------------- the specification
\* The seed script, putting rows of seeds in the table.
Seeds(seeds) ==
    \E id \in 1..MaxId, row \in seeds, c \in 0..now : SeedInsert(id, row, c)

\* The repository's Create, with its texts drawn from texts.
Creates(texts, users) ==
    \E n \in CreateInputs(texts), u \in users, st \in Storage :
       Create(n, u, st[1], st[2])

\* The send operations of both services, with their texts drawn from texts.
Sends(texts) ==
    \/ \E req \in EmailRequests(texts), st \in Storage :
          SendEmail(req, st[1], st[2])
    \/ \E req \in SMSRequests(texts), st \in Storage :
          SendSMS(req, st[1], st[2])
    \/ \E req \in EmailRequests(texts), st \in Storage :
          DirectSendEmail(req, st[1], st[2])
    \/ \E req \in SMSRequests(texts), st \in Storage :
          DirectSendSMS(req, st[1], st[2])

Marks ==
    \/ \E id \in 1..(MaxId + 1), st \in Storage :
          RepositoryMarkAsRead(id, st[1], st[2])
    \/ \E id \in IdStrings, st \in Storage : \E st2 \in StorageAfter(st) :
          MarkAsRead(id, st[1], st[2], st2[1], st2[2])
    \/ \E id \in IdStrings, st \in Storage : \E st2 \in StorageAfter(st) :
          DirectMarkAsRead(id, st[1], st[2], st2[1], st2[2])

Gets ==
    \/ \E id \in 1..(MaxId + 1), st \in Storage :
          FindByID(id, st[1], st[2])
    \/ \E id \in IdStrings, st \in Storage :
          GetNotification(id, st[1], st[2])
    \/ \E id \in IdStrings, st \in Storage :
          DirectGetNotification(id, st[1], st[2])

Lists ==
    \/ \E u \in Users, st \in Storage :
          \E o \in SqlSelectByUser(notifications, u) :
             ListByUserID(u, o, st[1], st[2])
    \/ \E u \in UserStrings, st \in Storage :
          \E o \in SqlSelectByUser(notifications, ListUser(u)) :
             ListNotifications(u, o, st[1], st[2])
    \/ \E u \in UserStrings, st \in Storage :
          \E o \in SqlSelectByUser(notifications, ListUser(u)) :
             DirectListNotifications(u, o, st[1], st[2])

Counts ==
    \/ \E u \in Users, st \in Storage :
          CountUnreadByUserID(u, st[1], st[2])
    \/ \E u \in UserStrings, st \in Storage :
          CountUnread(u, st[1], st[2])

\* Every operation, at one instant of the clock.  Create is called for the
\* user the send operations never write for.
Next ==
    \/ Creates({"a"}, Users \ {PlaceholderUser})
    \/ Sends({"a"})
    \/ Marks
    \/ Gets
    \/ Lists
    \/ Counts

Spec == Init /\ [][Next]_vars

\* Inserts at different instants, by the sequence and by the seed script,
\* and the list operations.
NextOrder == Tick \/ Seeds(SeedRows) \/ Creates({"a"}, Users) \/ Lists

SpecOrder == Init /\ [][NextOrder]_vars

\* Rows with every combination of empty, NULL and non-empty title and
\* message, and the operations that read them.
ContentSeedRows ==
    {Row(PlaceholderUser, ti, me, "promotion", FALSE, 0) :
        ti \in {"", "a"}, me \in {NULL, "", "b"}}

NextContent == Seeds(ContentSeedRows) \/ Gets \/ Lists

SpecContent == Init /\ [][NextContent]_vars

\* The requests to the routes whose handler reads the identity: the
\* middleware, then the handler.
IdentityRoutes(auth) ==
    \E a \in auth :
       LET c == AuthMiddleware(a[1], a[2])
       IN  \/ \E st \in Storage :
                 \E o \in SqlSelectByUser(notifications,
                                          ListUser(HandlerListUser(c))) :
                    c.next /\ HandlerListNotifications(c, o, st[1], st[2])
           \/ \E st \in Storage :
                 c.next /\ HandlerGetUnreadCount(c, st[1], st[2])

\* The requests to the routes that send a notification.
SendRoutes(auth, texts) ==
    \E a \in auth :
       LET c == AuthMiddleware(a[1], a[2])
       IN  \/ \E body \in EmailBodies(texts), st \in Storage :
                 c.next /\ HandlerSendEmail(c, body, st[1], st[2])
           \/ \E body \in SMSBodies(texts), st \in Storage :
                 c.next /\ HandlerSendSMS(c, body, st[1], st[2])

\* The requests to the routes that get and mark a notification by its id.
ByIDRoutes(auth) ==
    \E a \in auth :
       LET c == AuthMiddleware(a[1], a[2])
       IN  \/ \E id \in IdStrings, st \in Storage :
                 c.next /\ HandlerGetNotification(c, id, st[1], st[2])
           \/ \E id \in IdStrings, st \in Storage :
                 \E st2 \in StorageAfter(st) :
                    /\ c.next
                    /\ HandlerMarkAsRead(c, id, st[1], st[2], st2[1], st2[2])

\* Requests with no header and requests whose token the auth service
\* resolves to an id that is empty or not a number.
WebAuthInputs ==
    {a \in AuthInputs :
        a[1] = <<>> \/ (a[2].decodes /\ a[2].ID \in {<<>>, <<"x">>})}

\* All six routes, and the get operations beneath them.
NextWeb ==
    \/ IdentityRoutes(WebAuthInputs)
    \/ SendRoutes(WebAuthInputs, {"a"})
    \/ ByIDRoutes(WebAuthInputs)
    \/ Gets

SpecWeb == Init /\ [][NextWeb]_vars

\* Every header and every answer of the auth service, on the routes that
\* read the identity, over notifications of both users.
NextAuth == Creates({"a"}, Users) \/ IdentityRoutes(AuthInputs)

SpecAuth == Init /\ [][NextAuth]_vars

\* Requests with no header and requests of a caller resolved to user 2.
SendAuthInputs ==
    {a \in AuthInputs : a[1] = <<>> \/ (a[2].decodes /\ a[2].ID = <<"2">>)}

\* The send operations with subjects, bodies and messages that differ, and
\* the send routes for callers of different identity.
NextSend == Sends({"a", "b"}) \/ SendRoutes(SendAuthInputs, {"a"})

SpecSend == Init /\ [][NextSend]_vars

\* The routes that get and mark a notification by its id, for callers of
\* different identity, over notifications of both users.
NextByID == Creates({"a"}, Users) \/ ByIDRoutes(SendAuthInputs)

SpecByID == Init /\ [][NextByID]_vars

\* MarkAsRead calls of both services, each in two steps.
ConcurrentMarks ==
    \/ \E id \in IdStrings, st \in Storage :
          BeginMarkAsRead(id, st[1], st[2])
    \/ \E call \in BagToSet(inflight), st \in Storage :
          EndMarkAsRead(call, st[1], st[2])
    \/ \E id \in IdStrings, st \in Storage :
          BeginDirectMarkAsRead(id, st[1], st[2])
    \/ \E call \in BagToSet(inflight), st \in Storage :
          EndDirectMarkAsRead(call, st[1], st[2])

\* The send and get requests that run between the steps of those calls.
ConcurrentRequests ==
    \/ \E req \in EmailRequests({"a"}) : SendEmail(req, TRUE, TRUE)
    \/ \E req \in SMSRequests({"a"}) : SendSMS(req, TRUE, TRUE)
    \/ \E id \in IdStrings : GetNotification(id, TRUE, TRUE)

NextRace == ConcurrentMarks \/ ConcurrentRequests

SpecRace == Init /\ [][NextRace]_vars

\* ------------------------------------------------------ the properties
MarkOps == {"MarkAsRead", "DirectMarkAsRead", "RepositoryMarkAsRead"}

\* The id a MarkAsRead response is about.
MarkTarget(r) ==
    IF r.op = "RepositoryMarkAsRead" THEN r.arg ELSE Atoi(r.arg).val

OwnedBy(u) == {i \in DOMAIN notifications : notifications[i].user_id = u}

ReadOf(u) == {i \in OwnedBy(u) : notifications[i].read}

\* C1: a notification that is read stays read over every step, and the read
\* flag of a stored notification changes only in a MarkAsRead of that id.
ReadNeverReverts ==
    [][\A id \in DOMAIN notifications \cap DOMAIN notifications' :
          /\ notifications[id].read => notifications'[id].read
          /\ notifications[id].read # notifications'[id].read
                => resp'.op \in MarkOps /\ MarkTarget(resp') = id]_vars

\* A notification is read and a later operation has stored another one.
ReadThenAnotherStored ==
    /\ resp.op = "DirectSendSMS"
    /\ resp.err = ErrNil
    /\ \E id \in DOMAIN notifications : notifications[id].read

\* C3: every step keeps every stored notification, with its id, its owner
\* and its created_at.
StoredForever ==
    [][\A id \in DOMAIN notifications :
          /\ id \in DOMAIN notifications'
          /\ notifications'[id].user_id = notifications[id].user_id
          /\ notifications'[id].created_at = notifications[id].created_at]_vars

\* Two notifications of different owners are stored and one was just marked.
MarkedAmongTwoOwners ==
    /\ resp.op \in MarkOps
    /\ resp.err = ErrNil
    /\ OwnedBy(1) # {}
    /\ OwnedBy(2) # {}

\* C4: a MarkAsRead of a stored id that succeeds leaves it read, and a
\* MarkAsRead of an id that is already read leaves the table as it found it.
MarkAsReadIdempotent ==
    [][(resp'.op \in MarkOps /\ MarkTarget(resp') \in DOMAIN notifications)
          => /\ resp'.err = ErrNil
                   => notifications'[MarkTarget(resp')].read
             /\ notifications[MarkTarget(resp')].read
                   => notifications' = notifications]_vars

\* A MarkAsRead has succeeded on a notification that was already read.
MarkedTwice ==
    /\ resp.op = "MarkAsRead"
    /\ resp.err = ErrNil
    /\ resp.prior

\* C5: the unread count of a user is the number of the user's notifications
\* less the number of them that are read, in the repository and the service.
CountIsTotalLessRead ==
    \A u \in Users :
       LET n == Cardinality(OwnedBy(u))
           k == Cardinality(ReadOf(u))
       IN  /\ RepoCountUnreadByUserID(notifications, TRUE, u, TRUE).count
                 = n - k
           /\ CountUnreadResult(notifications, TRUE, Itoa(u), TRUE).count
                 = n - k
           /\ (resp.op = "CountUnreadByUserID" /\ resp.err = ErrNil
                  /\ resp.arg = u) => resp.count = n - k
           /\ (resp.op = "CountUnread" /\ resp.err = ErrNil
                  /\ resp.arg = Itoa(u)) => resp.count = n - k

\* CountUnread answered 0 for a user whose one notification is read while
\* another user has an unread one.
CountedWithOtherUsersUnread ==
    /\ resp.op = "CountUnread"
    /\ resp.err = ErrNil
    /\ resp.count = 0
    /\ ReadOf(Atoi(resp.arg).val) # {}
    /\ \E u \in Users : u # Atoi(resp.arg).val /\ OwnedBy(u) \ ReadOf(u) # {}

\* C7: a MarkAsRead that succeeds on a stored unread notification sets the
\* read flag of that row and nothing else; GetNotification returned
\* read = false before and returns the same entity with read = true after.
MarkAsReadFrame ==
    [][(/\ resp'.op \in MarkOps
        /\ resp'.err = ErrNil
        /\ MarkTarget(resp') \in DOMAIN notifications
        /\ ~notifications[MarkTarget(resp')].read)
          => LET t == MarkTarget(resp')
                 before == GetNotificationResult(notifications, TRUE,
                                                 Itoa(t), TRUE)
                 after == GetNotificationResult(notifications', TRUE,
                                                Itoa(t), TRUE)
                 dbefore == DirectGetNotificationResult(notifications, TRUE,
                                                        Itoa(t), TRUE)
                 dafter == DirectGetNotificationResult(notifications', TRUE,
                                                       Itoa(t), TRUE)
             IN  /\ notifications' = [notifications EXCEPT ![t].read = TRUE]
                 /\ before.err = ErrNil /\ ~before.entity.Read
                 /\ after.err = ErrNil
                 /\ after.entity = [before.entity EXCEPT !.Read = TRUE]
                 /\ dbefore.err = ErrNil /\ ~dbefore.entity.Read
                 /\ dafter.entity = [dbefore.entity EXCEPT !.Read = TRUE]
                 /\ resp'.op = "MarkAsRead" => resp'.entity = after.entity
                 /\ resp'.op = "DirectMarkAsRead"
                       => resp'.entity = dafter.entity]_vars

\* A MarkAsRead has succeeded on an unread notification while another
\* notification was stored unread.
MarkedOneOfTwoUnread ==
    /\ resp.op = "MarkAsRead"
    /\ resp.err = ErrNil
    /\ ~resp.prior
    /\ \E i \in DOMAIN notifications :
          i # MarkTarget(resp) /\ ~notifications[i].read

CreateOps == {"Create", "SendEmail", "SendSMS", "DirectSendEmail",
              "DirectSendSMS"}

\* C2: after a creation that succeeds, the returned entity has read = false,
\* a non-empty id, a non-empty created_at and status "sent", and the row
\* stored under that id has read = false.
CreatedUnreadAndStamped ==
    (resp.op \in CreateOps /\ resp.err = ErrNil)
       => /\ resp.ptr
          /\ ~resp.entity.Read
          /\ resp.entity.ID # <<>>
          /\ resp.entity.CreatedAt # <<>>
          /\ resp.entity.Status = "sent"
          /\ Atoi(resp.entity.ID).val \in DOMAIN notifications
          /\ ~notifications[Atoi(resp.entity.ID).val].read

\* C8: a list for a user with no notifications is an empty collection that
\* is not nil.
ListOfNoneIsEmptyNotNil ==
    (resp.op = "ListByUserID" /\ resp.err = ErrNil /\ OwnedBy(resp.arg) = {})
       => ~resp.list.isNil /\ resp.list.elems = <<>>

\* Positions of the ids in a returned list.
ListedIds(l) == {Atoi(l.elems[i].ID).val : i \in 1..Len(l.elems)}

\* C9: a list that succeeds holds each notification of the user once and no
\* other, a notification created later never after one created earlier.
ListIsOwnedNewestFirst ==
    (resp.op \in {"ListByUserID", "ListNotifications"} /\ resp.err = ErrNil)
       => LET u == IF resp.op = "ListByUserID" THEN resp.arg
                   ELSE ListUser(resp.arg)
              l == resp.list.elems
              idAt(i) == Atoi(l[i].ID).val
          IN  /\ ListedIds(resp.list) = OwnedBy(u)
              /\ Len(l) = Cardinality(OwnedBy(u))
              /\ \A i, j \in 1..Len(l) :
                    i < j => notifications[idAt(i)].created_at
                                >= notifications[idAt(j)].created_at

\* A list returned two notifications of one user, the one with the lower id
\* created after the other and listed first.
ListedTwoOfDifferentAge ==
    /\ resp.op = "ListByUserID"
    /\ resp.err = ErrNil
    /\ DOMAIN notifications = {1, 2}
    /\ Len(resp.list.elems) = 2
    /\ resp.list.elems[1].ID = Itoa(1)
    /\ notifications[1].created_at > notifications[2].created_at

\* C10: SendEmail to an empty recipient or to "invalid" fails with
\* ErrInvalidRecipient and leaves the table as it was.
InvalidRecipientRejected ==
    [][(resp'.op \in {"SendEmail", "DirectSendEmail"}
          /\ resp'.arg.To \in {"", "invalid"})
          => resp'.err = ErrInvalidRecipient
             /\ notifications' = notifications]_vars

\* C6: a stored notification with exactly one of title and message non-empty
\* is returned by every read with both fields equal to the non-empty value.
Text(v) == IF v = NULL THEN "" ELSE v

OneOfTitleMessage(row) == (Text(row.title) = "") # (Text(row.message) = "")

TheText(row) == IF Text(row.title) = "" THEN row.message ELSE row.title

Coalesced(e, row) == e.Title = TheText(row) /\ e.Message = TheText(row)

ReadsCoalesce ==
    /\ (resp.op \in {"FindByID", "GetNotification", "DirectGetNotification"}
           /\ resp.err = ErrNil /\ resp.ptr
           /\ OneOfTitleMessage(notifications[Atoi(resp.entity.ID).val]))
          => Coalesced(resp.entity, notifications[Atoi(resp.entity.ID).val])
    /\ (resp.op \in {"ListByUserID", "ListNotifications",
                     "DirectListNotifications"} /\ resp.err = ErrNil)
          => \A i \in 1..Len(resp.list.elems) :
                LET e == resp.list.elems[i]
                    row == notifications[Atoi(e.ID).val]
                IN  OneOfTitleMessage(row) => Coalesced(e, row)

\* The same for the reads that go through the repository.
RepositoryReadsCoalesce ==
    /\ (resp.op \in {"FindByID", "GetNotification"}
           /\ resp.err = ErrNil /\ resp.ptr
           /\ OneOfTitleMessage(notifications[Atoi(resp.entity.ID).val]))
          => Coalesced(resp.entity, notifications[Atoi(resp.entity.ID).val])
    /\ (resp.op \in {"ListByUserID", "ListNotifications"}
           /\ resp.err = ErrNil)
          => \A i \in 1..Len(resp.list.elems) :
                LET e == resp.list.elems[i]
                    row == notifications[Atoi(e.ID).val]
                IN  OneOfTitleMessage(row) => Coalesced(e, row)

\* C11: GetNotification with an id that does not parse fails with
\* ErrNotificationNotFound and returns no entity, whatever is stored.
UnparsableIdIsNotFound ==
    (resp.op \in {"GetNotification", "DirectGetNotification"}
        /\ ~Atoi(resp.arg).ok)
       => resp.err = ErrNotificationNotFound /\ ~resp.ptr

\* An identity CountUnread does not accept: empty, not a number, or not
\* positive.
InvalidIdentity(userID) ==
    userID = <<>> \/ ~Atoi(userID).ok \/ Atoi(userID).val <= 0

IdentityErrors == {ErrUserIDRequired, ErrInvalidUserID}

\* C12: CountUnread with an empty, non-numeric or non-positive identity fails
\* with an identity error and a count of 0, the same whatever the storage
\* does and whatever rows are stored, and changes nothing.
CountUnreadRejectsIdentity ==
    [][(resp'.op = "CountUnread" /\ InvalidIdentity(resp'.arg))
          => /\ resp'.err \in IdentityErrors
             /\ resp'.count = 0
             /\ notifications' = notifications
             /\ \A st \in Storage :
                   CountUnreadResult(notifications, st[1], resp'.arg, st[2])
                      = [err |-> resp'.err, count |-> 0]]_vars

\* CountUnread rejected an identity that is not a number while the
\* placeholder user had an unread notification.
CountRejectedWhileDefaultUserHasUnread ==
    /\ resp.op = "CountUnread"
    /\ ~Atoi(resp.arg).ok
    /\ resp.err = ErrInvalidUserID
    /\ OwnedBy(PlaceholderUser) \ ReadOf(PlaceholderUser) # {}

StorageErrors == {ErrNoPool, ErrStatement}

\* C13: the service's MarkAsRead fails with ErrNotificationNotFound, with no
\* entity and the table unchanged, when the id does not parse or the update
\* found no row; otherwise it returns the re-fetched notification, whose
\* read flag is true.
MarkAsReadNotFoundOrRefetched ==
    [][(resp'.op \in {"MarkAsRead", "DirectMarkAsRead"})
          => LET a == Atoi(resp'.arg)
                 stored == a.ok /\ a.val \in DOMAIN notifications
             IN  /\ ~a.ok => resp'.err = ErrNotificationNotFound
                 /\ (~stored /\ resp'.err \notin StorageErrors)
                       => resp'.err = ErrNotificationNotFound
                 /\ resp'.err = ErrNotificationNotFound
                       => ~stored /\ ~resp'.ptr /\ notifications' = notifications
                 /\ resp'.err = ErrNil
                       => /\ stored
                          /\ resp'.ptr
                          /\ resp'.entity.Read
                          /\ resp'.entity.ID = Itoa(a.val)
                          /\ notifications'[a.val].read]_vars

HandlerOps == {"HandlerSendEmail", "HandlerSendSMS",
               "HandlerListNotifications", "HandlerGetNotification",
               "HandlerMarkAsRead", "HandlerGetUnreadCount"}

ValidationErrors == {ErrInvalidRecipient, ErrBind} \cup IdentityErrors

\* C14: every handler answers a validation failure (invalid recipient,
\* invalid body, invalid identity) with a 4xx status, ErrNotificationNotFound
\* with 404 and every other failure with 500.
OneMappingTable ==
    resp.op \in HandlerOps
       => /\ resp.err \in ValidationErrors => resp.status \in 400..499
          /\ resp.err = ErrNotificationNotFound
                => resp.status = StatusNotFound
          /\ resp.err \in StorageErrors
                => resp.status = StatusInternalServerError

\* A header that carries a bearer token.
IsBearer(authHeader) ==
    \E n \in 1..Len(authHeader) :
       /\ n = Len(bearerPrefix)
       /\ n < Len(authHeader)
       /\ \A i \in 1..n : authHeader[i] = bearerPrefix[i]

\* The auth service answers the lookup with a user.
LookupSucceeds(reply) ==
    reply.reached /\ reply.StatusCode = StatusOK /\ reply.decodes

\* C15: for every header and every answer of the auth service the middleware
\* goes on to the handler; the identity is "1" when the header is missing or
\* malformed or the lookup fails, and the id the auth service returned when
\* the lookup succeeds; the handler works with the identity so set.
IdentityNeverRejects ==
    /\ \A a \in AuthInputs :
          LET c == AuthMiddleware(a[1], a[2])
          IN  /\ c.next
              /\ (IsBearer(a[1]) /\ LookupSucceeds(a[2]))
                    => c.user_id = a[2].ID
              /\ ~(IsBearer(a[1]) /\ LookupSucceeds(a[2]))
                    => c.user_id = <<"1">>
    /\ resp.op \in HandlerOps
          => /\ \E a \in AuthInputs : resp.c = AuthMiddleware(a[1], a[2])
             /\ resp.c.next
             /\ resp.op = "HandlerGetUnreadCount"
                   => resp.arg = resp.c.user_id
             /\ (resp.op = "HandlerListNotifications"
                    /\ resp.c.user_id # <<>>) => resp.arg = resp.c.user_id

\* A request whose token the auth service refused was answered with the
\* notifications of user 1.
ListedAfterFailedLookup ==
    /\ resp.op = "HandlerListNotifications"
    /\ resp.c.lookup = ErrInvalidToken
    /\ resp.c.user_id = <<"1">>
    /\ resp.status = StatusOK
    /\ Len(resp.list.elems) > 0

\* The step stores exactly one new notification, the row given, and leaves
\* every other notification as it was.
StoresOne(row) ==
    \E id \in DOMAIN notifications' \ DOMAIN notifications :
       /\ DOMAIN notifications' = DOMAIN notifications \cup {id}
       /\ notifications'[id] = row
       /\ \A i \in DOMAIN notifications : notifications'[i] = notifications[i]

\* The id of the notification the step stores.
StoredId == CHOOSE id \in DOMAIN notifications' : id \notin DOMAIN notifications

\* C16: a SendEmail that succeeds stores exactly one new notification, owned
\* by user 1 whatever the caller's identity, of type "email", unread, with
\* title and message both the request's subject, and returns it.
SendEmailStoresSubject ==
    [][(resp'.op \in {"SendEmail", "DirectSendEmail", "HandlerSendEmail"}
          /\ resp'.err = ErrNil)
          => /\ StoresOne(Row(PlaceholderUser, resp'.arg.Subject,
                              resp'.arg.Subject, "email", FALSE, now))
             /\ resp'.ptr
             /\ resp'.entity.ID = Itoa(StoredId)
             /\ resp'.entity.Type = "email"
             /\ resp'.entity.Title = resp'.arg.Subject
             /\ resp'.entity.Message = resp'.arg.Subject
             /\ ~resp'.entity.Read]_vars

ListResolvesIdentity ==
    (resp.op \in {"ListNotifications", "DirectListNotifications"})
       => LET a == Atoi(resp.arg)
              u == IF resp.arg = <<>> \/ ~a.ok THEN 1 ELSE a.val
          IN  /\ resp.err \in {ErrNil} \cup StorageErrors
              /\ resp.err = ErrNil
                    => /\ ListedIds(resp.list) = OwnedBy(u)
                       /\ Len(resp.list.elems) = Cardinality(OwnedBy(u))

\* An identity that is not a number was answered with the notification of
\* user 1 while user 2 had one too.
ListedDefaultUserForBadIdentity ==
    /\ resp.op = "ListNotifications"
    /\ ~Atoi(resp.arg).ok
    /\ resp.arg # <<>>
    /\ resp.err = ErrNil
    /\ Len(resp.list.elems) = 1
    /\ OwnedBy(1) # {}
    /\ OwnedBy(2) # {}

\* C19: FindByID returns neither entity nor error exactly when its statement
\* ran and no row has the id; GetNotification fails with
\* ErrNotificationNotFound only for an id that does not parse or that no row
\* has; a storage failure is another error, which the handler answers with
\* 500 and never with 404.
NotFoundIsNotFailure ==
    /\ \A id \in 1..(MaxId + 1) :
          LET r == RepoFindByID(notifications, TRUE, id, TRUE)
          IN  (r.err = ErrNil /\ ~r.ptr) <=> id \notin DOMAIN notifications
    /\ resp.op = "FindByID"
          => /\ (resp.err = ErrNil /\ ~resp.ptr)
                   => resp.arg \notin DOMAIN notifications
             /\ (resp.err = ErrNil /\ resp.arg \notin DOMAIN notifications)
                   => ~resp.ptr
             /\ resp.err # ErrNil => resp.err \in StorageErrors /\ ~resp.ptr
    /\ resp.op \in {"GetNotification", "DirectGetNotification",
                    "HandlerGetNotification"}
          => /\ resp.err = ErrNotificationNotFound
                   => \/ ~Atoi(resp.arg).ok
                      \/ Atoi(resp.arg).val \notin DOMAIN notifications
             /\ resp.err \notin {ErrNil, ErrNotificationNotFound}
                   => resp.err \in StorageErrors
    /\ resp.op = "HandlerGetNotification"
          => /\ resp.err \in StorageErrors
                   => resp.status = StatusInternalServerError
             /\ resp.status = StatusNotFound
                   <=> resp.err = ErrNotificationNotFound

\* The get route answered 500 for a stored notification that the failing
\* storage could not return.
GetOfStoredFailedWith500 ==
    /\ resp.op = "HandlerGetNotification"
    /\ Atoi(resp.arg).ok
    /\ Atoi(resp.arg).val \in DOMAIN notifications
    /\ resp.err = ErrStatement
    /\ resp.status = StatusInternalServerError

RepositoryOps == {"Create", "FindByID", "ListByUserID",
                  "RepositoryMarkAsRead", "CountUnreadByUserID"}

\* The errors the five repository operations return on table T with
\* sequence s when the storage is available.
ErrorsWhenAvailable(T, s) ==
    {RepoCreate(T, s, now, TRUE, n, u, TRUE).err :
        n \in CreateInputs({"a"}), u \in Users}
      \cup {RepoFindByID(T, TRUE, id, TRUE).err : id \in 1..(MaxId + 1)}
      \cup UNION {{RepoListByUserID(T, TRUE, o, TRUE).err :
                      o \in SqlSelectByUser(T, u)} : u \in Users}
      \cup {RepoMarkAsRead(T, TRUE, id, TRUE).err : id \in 1..(MaxId + 1)}
      \cup {RepoCountUnreadByUserID(T, TRUE, u, TRUE).err : u \in Users}

\* C20: a repository operation that fails returns the error of the storage
\* (no pool, or its one statement failed), returns no value, stores nothing
\* and changes no notification; every repository operation issued next with
\* the storage available succeeds.
StorageFailureSurfaced ==
    [][(resp'.op \in RepositoryOps /\ resp'.err # ErrNil)
          => /\ resp'.err \in StorageErrors
             /\ notifications' = notifications
             /\ seq' = seq
             /\ resp'.list.isNil /\ resp'.count = 0 /\ ~resp'.updated
             /\ ErrorsWhenAvailable(notifications', seq') = {ErrNil}]_vars

\* The repository's MarkAsRead has failed on a stored, unread notification.
MarkFailedOnUnread ==
    /\ resp.op = "RepositoryMarkAsRead"
    /\ resp.err = ErrStatement
    /\ resp.arg \in DOMAIN notifications
    /\ ~notifications[resp.arg].read

\* The responses of a MarkAsRead whose update has affected a row.
RefetchOps == {"EndMarkAsRead", "EndDirectMarkAsRead"}

\* The response is the entity of the requested id, as read.
ReturnsReadEntity(r) ==
    /\ r.err = ErrNil
    /\ r.ptr
    /\ r.entity.ID = r.arg
    /\ r.entity.Read

\* C21: with other MarkAsRead calls, sends and gets between its two round
\* trips, a MarkAsRead whose update affected a row never ends in
\* ErrNotificationNotFound, and it returns the entity of the requested id
\* with read = true unless its re-fetch fails at the storage.
UpdatedNeverNotFound ==
    resp.op \in RefetchOps
       => /\ resp.err # ErrNotificationNotFound
          /\ resp.err \notin StorageErrors => ReturnsReadEntity(resp)

\* C21 as stated: a MarkAsRead whose update affected a row always returns the
\* entity of the requested id with read = true.
UpdatedAlwaysReturnsEntity ==
    resp.op \in RefetchOps => ReturnsReadEntity(resp)

\* A MarkAsRead of an unread notification has returned it while a second
\* call, whose update came between its two round trips, has its re-fetch
\* to do.
RefetchedAcrossSecondUpdate ==
    /\ resp.op \in RefetchOps
    /\ ~resp.prior
    /\ ReturnsReadEntity(resp)
    /\ \E call \in BagToSet(inflight) : call.id = resp.arg /\ call.prior

\* The responses a MarkAsRead call returns with: of its update when it
\* stops there, of its re-fetch otherwise.
Returned(r) ==
    \/ r.op \in {"BeginMarkAsRead", "BeginDirectMarkAsRead"} /\ ~r.updated
    \/ r.op \in RefetchOps

ByIDOps == {"HandlerGetNotification", "HandlerMarkAsRead"}

\* The contexts the middleware prepares for those callers.
ByIDContexts == {AuthMiddleware(a[1], a[2]) : a \in SendAuthInputs}

\* What the handler of r's route answers to a request of context c for the
\* id of r, over the table T and with the storage doing st, then st2.
ByIDResult(r, T, c, st, st2) ==
    IF r.op = "HandlerGetNotification"
    THEN HandlerGetNotificationResult(T, c, r.arg, st[1], st[2])
    ELSE HandlerMarkAsReadResult(T, c, r.arg, st[1], st[2], st2[1], st2[2])

\* C23: what a get or a mark of a notification by its id answers and what
\* it stores do not depend on the identity the middleware has resolved: the
\* same request with any other identity, the storage doing the same, gets
\* the same answer and leaves the same table.
ByIDIgnoresIdentity ==
    [][resp'.op \in ByIDOps
          => LET taken ==
                     {st \in Storage \X Storage :
                         /\ st[2] \in StorageAfter(st[1])
                         /\ LET mine == ByIDResult(resp', notifications,
                                                   resp'.c, st[1], st[2])
                            IN  mine.resp = resp'
                                   /\ mine.table = notifications'}
             IN  /\ taken # {}
                 /\ \A st \in taken : \A c \in ByIDContexts \ {resp'.c} :
                       LET other == ByIDResult(resp', notifications, c,
                                               st[1], st[2])
                       IN  /\ other.table = notifications'
                           /\ [other.resp EXCEPT !.c = resp'.c] = resp']_vars

\* A caller resolved to user 2 has marked an unread notification of user 1.
MarkedNotificationOfOther ==
    /\ resp.op = "HandlerMarkAsRead"
    /\ resp.c.user_id = <<"2">>
    /\ resp.err = ErrNil
    /\ ~resp.prior
    /\ notifications[Atoi(resp.arg).val].user_id = 1
    /\ notifications[Atoi(resp.arg).val].read

\* C24: the user_id the middleware has put in the context of a request is
\* not empty, whatever the header and the answer of the auth service, and
\* the unread-count handler behind it never answers 401.
IdentityNeverEmpty ==
    resp.status # 0
       => /\ resp.c.user_id # <<>>
          /\ ~(/\ resp.op = "HandlerGetUnreadCount"
               /\ resp.status = StatusUnauthorized)

====
